---- MODULE Spec2Model ----
(***************************************************************************)
(* Model of flurs/base.py: the Recommender base class (entity registry,    *)
(* abstract operation set, scores2recos) and FeatureRecommender.           *)
(*                                                                         *)
(* Three specifications share the module:                                  *)
(*   Spec      the registry of one constructed Recommender                 *)
(*   SpecRank  the pure function scores2recos applied to bounded inputs    *)
(*   SpecABC   construction of a concrete subclass and method dispatch     *)
(* Each one holds the variables of the other two at their initial values.  *)
(***************************************************************************)
EXTENDS Integers, Sequences, FiniteSets

\* ---------------------------------------------------------------- bounds
\* user and item indices are 0..MaxIndex
MaxIndex == 1
\* n_user and n_item are capped by the guards of add_user / add_item
MaxCount == 3
\* scores2recos: longest input array, number of distinct score values,
\* largest target item index
MaxLen == 3
MaxScore == 3
MaxTarget == 1

UserIds == 0..MaxIndex
ItemIds == 0..MaxIndex
\* stand-ins for float scores: only their order matters to argsort
ScoreValues == 1..MaxScore
TargetIds == 0..MaxTarget

SeqsUpTo(S, n) == UNION {[1..k -> S] : k \in 0..n}

VARIABLES
    \* Recommender fields
    n_user, users, n_item, items,
    \* history: indices passed to add_user / add_item so far, and the last call
    added_users, added_items, last,
    \* scores2recos: the arguments and the outcome of the call
    scores, target_i_indices, rev, result,
    \* class machinery: base class, the abstract methods the concrete type
    \* defines, whether the interpreter honours __metaclass__, the instance
    base, overrides, metaclass_honoured, instance, dispatched

regVars == <<n_user, users, n_item, items, added_users, added_items, last>>
rankVars == <<scores, target_i_indices, rev, result>>
abcVars == <<base, overrides, metaclass_honoured, instance, dispatched>>
vars == <<regVars, rankVars, abcVars>>

\* ------------------------------------------------------------- registry

\* the record add_user stores: {'observed': set()}
NewUserRecord == [observed |-> {}]
\* the record add_item stores: {}
NewItemRecord == <<>>

\* dict assignment d[k] = v: inserts the key or overwrites its value
DictSet(d, k, v) == [x \in (DOMAIN d) \cup {k} |-> IF x = k THEN v ELSE d[x]]

\* Recommender.__init__
RegInit ==
    /\ n_user = 0
    /\ users = <<>>
    /\ n_item = 0
    /\ items = <<>>
    /\ added_users = {}
    /\ added_items = {}
    /\ last = [op |-> "__init__", arg |-> <<>>, ret |-> "None"]

\* mutant: looks the user index up in the wrong dictionary
is_new_user_wrong_dict(u) == u \notin DOMAIN items

is_new_user(u) == u \notin DOMAIN users

is_new_item(i) == i \notin DOMAIN items

\* mutant: registers the user without counting it
add_user_no_count(user) ==
    /\ n_user < MaxCount
    /\ users' = DictSet(users, user, NewUserRecord)
    /\ added_users' = added_users \cup {user}
    /\ last' = [op |-> "add_user", arg |-> <<user>>, ret |-> "None"]
    /\ UNCHANGED <<n_user, n_item, items, added_items>>

add_user(user) ==
    /\ n_user < MaxCount
    /\ users' = DictSet(users, user, NewUserRecord)
    /\ n_user' = n_user + 1
    /\ added_users' = added_users \cup {user}
    /\ last' = [op |-> "add_user", arg |-> <<user>>, ret |-> "None"]
    /\ UNCHANGED <<n_item, items, added_items>>

add_item(item) ==
    /\ n_item < MaxCount
    /\ items' = DictSet(items, item, NewItemRecord)
    /\ n_item' = n_item + 1
    /\ added_items' = added_items \cup {item}
    /\ last' = [op |-> "add_item", arg |-> <<item>>, ret |-> "None"]
    /\ UNCHANGED <<n_user, users, added_users>>

call_is_new_user(u) ==
    /\ last' = [op |-> "is_new_user", arg |-> <<u>>, ret |-> is_new_user(u)]
    /\ UNCHANGED <<n_user, users, n_item, items, added_users, added_items>>

call_is_new_item(i) ==
    /\ last' = [op |-> "is_new_item", arg |-> <<i>>, ret |-> is_new_item(i)]
    /\ UNCHANGED <<n_user, users, n_item, items, added_users, added_items>>

\* A concrete update(e): base.py only declares it; the registry effect of an
\* event (user u, item i), both registered, is to mark i as observed by u.
update(u, i) ==
    /\ u \in DOMAIN users
    /\ i \in DOMAIN items
    /\ users' = [users EXCEPT ![u].observed = @ \cup {i}]
    /\ last' = [op |-> "update", arg |-> <<u, i>>, ret |-> "None"]
    /\ UNCHANGED <<n_user, n_item, items, added_users, added_items>>

\* ---------------------------------------------------------- scores2recos

Pending == [status |-> "pending", sorted_indices |-> <<>>, items |-> <<>>, scores |-> <<>>]

RankIdle ==
    /\ scores = <<>>
    /\ target_i_indices = <<>>
    /\ rev = FALSE
    /\ result = Pending

RankInit ==
    /\ scores \in SeqsUpTo(ScoreValues, MaxLen)
    /\ target_i_indices \in SeqsUpTo(TargetIds, MaxLen)
    /\ rev \in BOOLEAN
    /\ result = Pending

Permutations(n) == {p \in [1..n -> 1..n] : \A i, j \in 1..n : p[i] = p[j] => i = j}

\* np.argsort(a) with the default kind ('quicksort', not a stable sort): any
\* permutation of the positions that puts a in non-decreasing order.
\* Positions are 1-based here, 0-based in numpy.
argsort(a) ==
    {p \in Permutations(Len(a)) : \A k \in 1..(Len(a) - 1) : a[p[k]] <= a[p[k + 1]]}

\* mutant: rev is ignored, the ascending order is kept
Reversed_ignored(idx) == idx

\* mutant: idx[:0:-1], the reversal loses the first index
Reversed_short(idx) == [k \in 1..(Len(idx) - 1) |-> idx[Len(idx) + 1 - k]]

\* idx[::-1]
Reversed(idx) == [k \in 1..Len(idx) |-> idx[Len(idx) + 1 - k]]

\* a[idx] with an integer index array: fails when an index is out of bounds
InBounds(a, idx) == \A k \in 1..Len(idx) : idx[k] \in 1..Len(a)

Take(a, idx) == [k \in 1..Len(idx) |-> a[idx[k]]]

scores2recos ==
    /\ result.status = "pending"
    /\ \E sorted \in argsort(scores) :
          LET sorted_indices == IF rev THEN Reversed(sorted) ELSE sorted
          IN  result' =
                IF InBounds(target_i_indices, sorted_indices)
                THEN [status |-> "returned",
                      sorted_indices |-> sorted_indices,
                      items |-> Take(target_i_indices, sorted_indices),
                      scores |-> Take(scores, sorted_indices)]
                ELSE [status |-> "IndexError",
                      sorted_indices |-> sorted_indices,
                      items |-> <<>>,
                      scores |-> <<>>]
    /\ UNCHANGED <<scores, target_i_indices, rev>>

\* ------------------------------------------------------ abstract methods

AbstractMethods == {"init_model", "add_user", "add_item", "update", "predict", "recommend"}
ConcreteMethods == {"is_new_user", "is_new_item", "scores2recos"}
BaseClasses == {"Recommender", "FeatureRecommender"}

AbcIdle ==
    /\ base = "Recommender"
    /\ overrides = AbstractMethods
    /\ metaclass_honoured = FALSE
    /\ instance = "constructed"
    /\ dispatched = <<>>

\* A concrete type is a base class plus the abstract methods it defines.
\* The class attribute __metaclass__ = ABCMeta makes ABCMeta the metaclass
\* on Python 2 and is an ordinary attribute on Python 3.
AbcInit ==
    /\ base \in BaseClasses
    /\ overrides \in SUBSET AbstractMethods
    /\ metaclass_honoured \in BOOLEAN
    /\ instance = "none"
    /\ dispatched = <<>>

\* Instantiation: ABCMeta refuses a class with abstract methods left;
\* without the metaclass, object construction runs __init__ unconditionally.
Construct ==
    /\ instance = "none"
    /\ instance' = IF metaclass_honoured /\ overrides # AbstractMethods
                   THEN "TypeError"
                   ELSE "constructed"
    /\ UNCHANGED <<base, overrides, metaclass_honoured, dispatched>>

\* A method call on the instance: the subclass's body when it defines the
\* method, the body in base.py otherwise.
Call(m) ==
    /\ instance = "constructed"
    /\ dispatched' = <<m, IF m \in overrides THEN "subclass" ELSE base>>
    /\ UNCHANGED <<base, overrides, metaclass_honoured, instance>>

\* -------------------------------------------------------- specifications

Init == RegInit /\ RankIdle /\ AbcIdle

Next ==
    \/ \E u \in UserIds : add_user(u) /\ UNCHANGED <<rankVars, abcVars>>
    \/ \E i \in ItemIds : add_item(i) /\ UNCHANGED <<rankVars, abcVars>>
    \/ \E u \in UserIds : call_is_new_user(u) /\ UNCHANGED <<rankVars, abcVars>>
    \/ \E i \in ItemIds : call_is_new_item(i) /\ UNCHANGED <<rankVars, abcVars>>
    \/ \E u \in UserIds, i \in ItemIds : update(u, i) /\ UNCHANGED <<rankVars, abcVars>>

Spec == Init /\ [][Next]_vars

InitRank == RegInit /\ RankInit /\ AbcIdle

NextRank == scores2recos /\ UNCHANGED <<regVars, abcVars>>

SpecRank == InitRank /\ [][NextRank]_vars

InitABC == RegInit /\ RankIdle /\ AbcInit

NextABC ==
    \/ Construct /\ UNCHANGED <<regVars, rankVars>>
    \/ \E m \in AbstractMethods \cup ConcreteMethods : Call(m) /\ UNCHANGED <<regVars, rankVars>>

SpecABC == InitABC /\ [][NextABC]_vars

\* ------------------------------------------------------ registry claims

\* C1: in every reachable state n_user is the number of keys of users and
\* n_item is the number of keys of items, whatever indices were passed to
\* add_user / add_item (already registered ones included).
C1_CountsMatchKeys ==
    /\ n_user = Cardinality(DOMAIN users)
    /\ n_item = Cardinality(DOMAIN items)

\* C2: add_item with an index that is already a key of items fails and leaves
\* n_item and items as they were; the same for add_user.
C2_DuplicateRejected ==
    [][ /\ (last'.op = "add_item" /\ last'.arg[1] \in DOMAIN items)
            => (last'.ret = "error" /\ n_item' = n_item /\ items' = items)
        /\ (last'.op = "add_user" /\ last'.arg[1] \in DOMAIN users)
            => (last'.ret = "error" /\ n_user' = n_user /\ users' = users)
      ]_vars

\* C3: a registered index stays a key in every later state and what its
\* record has accumulated (users[k].observed) is never lost.
C3_RecordsNeverReplaced ==
    [][ /\ \A k \in DOMAIN users :
              k \in DOMAIN users' /\ users[k].observed \subseteq users'[k].observed
        /\ \A k \in DOMAIN items :
              k \in DOMAIN items' /\ items'[k] = items[k]
      ]_vars

IsNewIffNeverAdded ==
    /\ \A u \in UserIds : is_new_user(u) <=> u \notin added_users
    /\ \A i \in ItemIds : is_new_item(i) <=> i \notin added_items
    /\ last.op = "is_new_user" => (last.ret <=> last.arg[1] \notin added_users)
    /\ last.op = "is_new_item" => (last.ret <=> last.arg[1] \notin added_items)

LookupChangesNothing ==
    last'.op \in {"is_new_user", "is_new_item"}
        => UNCHANGED <<users, items, n_user, n_item>>

\* C4: is_new_user(u) is true exactly when no add_user call with index u has
\* occurred so far (true before the first one, false right after it and ever
\* after), likewise is_new_item; the lookup changes none of users, items,
\* n_user, n_item.
C4_IsNewIffNeverAdded == []IsNewIffNeverAdded /\ [][LookupChangesNothing]_vars

\* a lookup of a registered user answered false while another user is still new
C4_Witness ==
    /\ last.op = "is_new_user"
    /\ last.arg[1] \in added_users
    /\ last.ret = FALSE
    /\ \E u \in UserIds : is_new_user(u)
    /\ added_items # {}

\* C5: add_user with a new index increments n_user by exactly 1, adds exactly
\* that key with an empty observed set, leaves every other user record, items
\* and n_item unchanged; add_item with a new index is symmetric.
C5_AddFrame ==
    [][ /\ (last'.op = "add_user" /\ last'.arg[1] \notin DOMAIN users)
            => /\ n_user' = n_user + 1
               /\ DOMAIN users' = DOMAIN users \cup {last'.arg[1]}
               /\ Cardinality(DOMAIN users') = Cardinality(DOMAIN users) + 1
               /\ users'[last'.arg[1]] = [observed |-> {}]
               /\ \A k \in DOMAIN users : users'[k] = users[k]
               /\ UNCHANGED <<items, n_item>>
        /\ (last'.op = "add_item" /\ last'.arg[1] \notin DOMAIN items)
            => /\ n_item' = n_item + 1
               /\ DOMAIN items' = DOMAIN items \cup {last'.arg[1]}
               /\ Cardinality(DOMAIN items') = Cardinality(DOMAIN items) + 1
               /\ items'[last'.arg[1]] = <<>>
               /\ \A k \in DOMAIN items : items'[k] = items[k]
               /\ UNCHANGED <<users, n_user>>
      ]_vars

\* a second, new user was just added while the first one has observed an item
C5_Witness ==
    /\ last.op = "add_user"
    /\ n_user = 2
    /\ Cardinality(DOMAIN users) = 2
    /\ users[last.arg[1]].observed = {}
    /\ \E k \in DOMAIN users : users[k].observed # {}

\* -------------------------------------------------- scores2recos claims

Returned == result.status = "returned"
EqualLength == Len(scores) = Len(target_i_indices)

\* the output place of input position p
PlaceOf(p) == CHOOSE k \in 1..Len(result.sorted_indices) : result.sorted_indices[k] = p

\* C6: stability, for both rev settings: of two input positions p < q with
\* equal scores, the item of p comes before the item of q in the output.
C6_Stable ==
    (Returned /\ EqualLength) =>
        \A p, q \in 1..Len(scores) :
            (p < q /\ scores[p] = scores[q]) => PlaceOf(p) < PlaceOf(q)

\* C7: for equal-length inputs the returned scores are non-decreasing when
\* rev is false and non-increasing when rev is true, and each output place
\* holds the item that was paired with its score in the input.
C7_Ordered ==
    (Returned /\ EqualLength) =>
        /\ \A k \in 1..(Len(result.scores) - 1) :
              IF rev THEN result.scores[k] >= result.scores[k + 1]
                     ELSE result.scores[k] <= result.scores[k + 1]
        /\ Len(result.items) = Len(result.scores)
        /\ \A k \in 1..Len(result.scores) :
              \E j \in 1..Len(scores) :
                  /\ result.sorted_indices[k] = j
                  /\ result.items[k] = target_i_indices[j]
                  /\ result.scores[k] = scores[j]

\* the scenario scores=[0.3,0.1,0.2]: three distinct scores, returned in
\* descending order with rev, and items that differ
C7_Witness ==
    /\ Returned
    /\ rev
    /\ scores = <<3, 1, 2>>
    /\ result.scores = <<3, 2, 1>>
    /\ target_i_indices = <<0, 1, 1>>
    /\ result.items = <<0, 1, 1>>

\* C8: for equal-length inputs the output is a permutation of the input: both
\* returned arrays have the input length and one permutation of the input
\* positions yields both (duplicate items keep their multiplicity).
C8_Permutation ==
    (Returned /\ EqualLength) =>
        /\ Len(result.items) = Len(target_i_indices)
        /\ Len(result.scores) = Len(scores)
        /\ \E p \in Permutations(Len(scores)) :
              /\ \A k \in 1..Len(scores) : result.items[k] = target_i_indices[p[k]]
              /\ \A k \in 1..Len(scores) : result.scores[k] = scores[p[k]]

\* a returned ranking of three targets with a duplicated item index and a tie
C8_Witness ==
    /\ Returned
    /\ Len(scores) = 3
    /\ target_i_indices = <<1, 0, 1>>
    /\ scores = <<2, 1, 2>>
    /\ result.items = <<0, 1, 1>>

\* C9: with scores and target_i_indices of different lengths the call fails;
\* it never returns a result.
C9_MismatchFails ==
    (result.status # "pending" /\ ~EqualLength) => result.status = "IndexError"

\* ------------------------------------------------ abstract-method claims

\* C10: a concrete type that leaves out one of the abstract methods never
\* has an instance whose operations can be called.
C10_OmissionRejected ==
    overrides # AbstractMethods => instance # "constructed"

====
